---- MODULE Spec2Model ----
(***************************************************************************)
(* A model of AsyncSerial (src/trunk/src/AsyncSerial.cpp).                 *)
(*                                                                         *)
(* Spec    is the reactor build (#ifndef __APPLE__, lines 44-282): one     *)
(*         background thread runs io_service::run, handlers are executed   *)
(*         one at a time in the order they were queued, foreground threads *)
(*         call open/close/write/setReadCallback/clearReadCallback.        *)
(* SpecBW  is the blocking-worker build (#else, lines 284-635): the        *)
(*         background thread loops on a blocking read(2).                  *)
(*                                                                         *)
(* The io_service is the sequence io of queued handlers.  A handler is     *)
(* queued by post() (doRead, doWrite, doClose) or by the completion of an  *)
(* asynchronous operation (readEnd, writeEnd, with or without error).      *)
(* run() returns, and the thread ends, when no handler is queued and no    *)
(* operation is outstanding; handlers posted afterwards stay queued until  *)
(* the next thread calls run().                                            *)
(***************************************************************************)
EXTENDS Integers, Sequences, FiniteSets

\* ---- bounds of the exploration -------------------------------------------
MaxWrites == 2       \* write() calls, over all writer threads
MaxOpens == 2        \* open() calls of the controlling thread
MaxFaults == 1       \* device faults (failed reads or writes) injected

\* The threads that call write().
Writers == {1, 2}

\* The bytes passed to write() by the n-th call to take writeQueueMutex.  The
\* engine never looks at the bytes, so they are numbered in that order: every
\* call passes two bytes and no byte value is passed twice, which makes a
\* byte sent twice, out of order or not at all visible on the wire.
Payload(n) == <<2 * n - 1, 2 * n>>

VARIABLES
    open,             \* AsyncSerialImpl::open
    error,            \* AsyncSerialImpl::error
    port,             \* AsyncSerialImpl::port / fd: "closed", "open", "invalid"
    callback,         \* AsyncSerialImpl::callback: TRUE when non-empty
    writeQueue,       \* AsyncSerialImpl::writeQueue
    writeBuffer,      \* AsyncSerialImpl::writeBuffer: [null, bytes]
    io,               \* AsyncSerialImpl::io: handlers queued in the io_service
    ioStopped,        \* io_service stopped flag (set when run() runs out of work)
    backgroundThread, \* "none", "running", "finished", "aborted"
    rdPending,        \* an async_read_some is outstanding at the device
    wrPending,        \* async_write operations outstanding: bytes still to send
    bg,               \* position of the background thread
    received,         \* blocking worker: the result of the last read(2)
    ctl,              \* position of the controlling foreground thread
    last,             \* outcome of the controlling thread's last open()/close()
    wr,               \* position of each writer thread
    nWr,              \* write() calls made
    nOpen,            \* open() calls made
    nFault,           \* device faults injected
    appended,         \* history: all bytes appended to writeQueue, in lock order
    wire,             \* history: all bytes the device accepted, in order
    period            \* history: what happened since the current open() began

vars == <<open, error, port, callback, writeQueue, writeBuffer, io, ioStopped,
          backgroundThread, rdPending, wrPending, bg, received, ctl, last, wr,
          nWr, nOpen, nFault, appended, wire, period>>

NullBuffer == [null |-> TRUE, bytes |-> <<>>]

\* period.devFault: the device failed a read or a write since open() began.
\* period.readErr : readEnd ran with an error while isOpen() was true.
\* period.wrote   : write() appended bytes after open() had returned.
FreshPeriod == [devFault |-> FALSE, readErr |-> FALSE, wrote |-> FALSE]

\* The process has not been terminated and the object has not been destroyed.
Alive == backgroundThread # "aborted" /\ ctl # "destroyed"

Init ==
    /\ open = FALSE /\ error = FALSE /\ port = "closed" /\ callback = FALSE
    /\ writeQueue = <<>> /\ writeBuffer = NullBuffer
    /\ io = <<>> /\ ioStopped = FALSE /\ backgroundThread = "none"
    /\ rdPending = FALSE /\ wrPending = <<>>
    /\ bg = "idle" /\ received = 0 /\ ctl = "idle" /\ last = "none"
    /\ wr = [w \in Writers |-> "idle"] /\ nWr = 0
    /\ nOpen = 0 /\ nFault = 0
    /\ appended = <<>> /\ wire = <<>>
    /\ period = FreshPeriod

\* ---- subroutines of the handlers (reactor build) --------------------------

\* setErrorStatus(e): the new value of the error flag.
setErrorStatus(e) == e

\* doRead(): async_read_some on the port.  On an open port the read becomes
\* outstanding; on a closed one it completes at once with bad_descriptor.
\* q is the handler queue the completion is added to.
doRead(q) ==
    IF port = "open" THEN [io |-> q, rdPending |-> TRUE]
                     ELSE [io |-> Append(q, "readEnd_err"), rdPending |-> rdPending]

\* async_write(port, buffer b): an empty buffer completes at once without
\* error, a write on a closed port completes at once with bad_descriptor,
\* otherwise the write becomes outstanding.
asyncWrite(q, b) ==
    IF b = <<>> THEN [io |-> Append(q, "writeEnd_ok"), wrPending |-> wrPending]
    ELSE IF port = "open" THEN [io |-> q, wrPending |-> Append(wrPending, b)]
    ELSE [io |-> Append(q, "writeEnd_err"), wrPending |-> wrPending]

\* doClose(): port.cancel(ec) fails on a port that is not open and otherwise
\* completes every outstanding operation with operation_aborted; port.close(ec)
\* releases the handle and may report a failure (closeFails).  Either failure
\* sets the error flag (lines 263, 265).  e is the error flag before the call.
doClose(q, e, closeFails) ==
    [io    |-> q \o (IF rdPending THEN <<"readEnd_err">> ELSE <<>>)
                \o [i \in 1..Len(wrPending) |-> "writeEnd_err"],
     error |-> IF port # "open" \/ closeFails THEN setErrorStatus(TRUE) ELSE e]

\* The background thread is inside io_service::run, between two handlers,
\* and h is the next handler to run.
Dispatch(h) ==
    /\ Alive /\ backgroundThread = "running" /\ bg = "idle" /\ ~ioStopped
    /\ io # <<>> /\ Head(io) = h

Histories == <<nWr, nOpen, nFault, appended, wire, period>>
\* State only the blocking-worker build has / only the reactor build has.
WorkerOnly == <<received>>
ReactorOnly == <<writeQueue, writeBuffer, io, ioStopped, rdPending, wrPending, wr>>
Foreground == <<ctl, last, wr>>

\* ---- the controlling thread: open() --------------------------------------

\* open(), line 91: if(isOpen()) close();  (close() up to open=false)
OpenCall ==
    /\ Alive /\ ctl = "idle" /\ nOpen < MaxOpens
    /\ nOpen' = nOpen + 1
    /\ last' = "none"
    /\ IF open THEN open' = FALSE /\ ctl' = "o_c_post"
               ELSE open' = open /\ ctl' = "o_setup"
    /\ UNCHANGED WorkerOnly
    /\ UNCHANGED <<error, port, callback, writeQueue, writeBuffer, io, ioStopped,
                   backgroundThread, rdPending, wrPending, bg, wr, nWr, nFault,
                   appended, wire, period>>

\* A variant of OpenSetup that does not set the error flag before acquiring
\* the handle (line 95 missing).
OpenSetup_NoErrorPreset ==
    /\ Alive /\ ctl = "o_setup"
    /\ error' = error
    /\ period' = FreshPeriod
    /\ \E dev \in {"ok", "nodev", "badparam"} :
         IF port = "open"
         THEN /\ port' = port /\ ctl' = "idle"
              /\ last' = IF dev = "ok" THEN "open_fail_busy" ELSE "open_fail"
         ELSE IF dev = "nodev"
         THEN /\ port' = port /\ ctl' = "idle" /\ last' = "open_fail"
         ELSE IF dev = "badparam"
         THEN /\ port' = "open" /\ ctl' = "idle" /\ last' = "open_fail"
         ELSE /\ port' = "open" /\ ctl' = "o_start" /\ last' = last
    /\ UNCHANGED WorkerOnly
    /\ UNCHANGED <<open, callback, writeQueue, writeBuffer, io, ioStopped,
                   backgroundThread, rdPending, wrPending, bg, wr, nWr, nOpen,
                   nFault, appended, wire>>

\* open(), lines 95-101: set the error flag, acquire the handle, apply the
\* line parameters.  dev is what the caller passed: a valid device and
\* parameters, a device that cannot be opened, or a rejected parameter.
OpenSetup ==
    /\ Alive /\ ctl = "o_setup"
    /\ error' = setErrorStatus(TRUE)
    /\ period' = FreshPeriod
    /\ \E dev \in {"ok", "nodev", "badparam"} :
         IF port = "open"
         THEN \* port.open throws already_open
              /\ port' = port /\ ctl' = "idle"
              /\ last' = IF dev = "ok" THEN "open_fail_busy" ELSE "open_fail"
         ELSE IF dev = "nodev"
         THEN /\ port' = port /\ ctl' = "idle" /\ last' = "open_fail"
         ELSE IF dev = "badparam"
         THEN \* set_option throws after the handle was acquired
              /\ port' = "open" /\ ctl' = "idle" /\ last' = "open_fail"
         ELSE /\ port' = "open" /\ ctl' = "o_start" /\ last' = last
    /\ UNCHANGED WorkerOnly
    /\ UNCHANGED <<open, callback, writeQueue, writeBuffer, io, ioStopped,
                   backgroundThread, rdPending, wrPending, bg, wr, nWr, nOpen,
                   nFault, appended, wire>>

\* open(), lines 104-107: post doRead, start the thread running io.run().
OpenStart ==
    /\ Alive /\ ctl = "o_start"
    /\ io' = Append(io, "doRead")
    /\ backgroundThread' = "running"
    /\ bg' = "idle"
    /\ ctl' = "o_clear"
    /\ UNCHANGED WorkerOnly
    /\ UNCHANGED <<open, error, port, callback, writeQueue, writeBuffer, ioStopped,
                   rdPending, wrPending, last, wr, Histories>>

\* open(), line 108: setErrorStatus(false).
OpenClear ==
    /\ Alive /\ ctl = "o_clear"
    /\ error' = setErrorStatus(FALSE)
    /\ ctl' = "o_mark"
    /\ UNCHANGED WorkerOnly
    /\ UNCHANGED <<open, port, callback, writeQueue, writeBuffer, io, ioStopped,
                   backgroundThread, rdPending, wrPending, bg, last, wr, Histories>>

\* open(), line 109: pimpl->open=true, and open() returns.
OpenMark ==
    /\ Alive /\ ctl = "o_mark"
    /\ open' = TRUE
    /\ ctl' = "idle" /\ last' = "open_ok"
    /\ UNCHANGED WorkerOnly
    /\ UNCHANGED <<error, port, callback, writeQueue, writeBuffer, io, ioStopped,
                   backgroundThread, rdPending, wrPending, bg, wr, Histories>>

\* ---- the controlling thread: close() -------------------------------------

\* A variant of CloseCall without the isOpen() test of line 125.
CloseCall_NoGuard ==
    /\ Alive /\ ctl = "idle"
    /\ open' = FALSE /\ ctl' = "c_post" /\ last' = "none"
    /\ UNCHANGED WorkerOnly
    /\ UNCHANGED <<error, port, callback, writeQueue, writeBuffer, io, ioStopped,
                   backgroundThread, rdPending, wrPending, bg, wr, Histories>>

\* close(), lines 125-127: return if not open, else open=false.
CloseCall ==
    /\ Alive /\ ctl = "idle"
    /\ IF open THEN open' = FALSE /\ ctl' = "c_post" /\ last' = "none"
               ELSE open' = open /\ ctl' = ctl /\ last' = "close_noop"
    /\ UNCHANGED WorkerOnly
    /\ UNCHANGED <<error, port, callback, writeQueue, writeBuffer, io, ioStopped,
                   backgroundThread, rdPending, wrPending, bg, wr, Histories>>

\* close(), line 128: post doClose.
ClosePost ==
    /\ Alive /\ ctl \in {"c_post", "o_c_post"}
    /\ io' = Append(io, "doClose")
    /\ ctl' = IF ctl = "c_post" THEN "c_join" ELSE "o_c_join"
    /\ UNCHANGED WorkerOnly
    /\ UNCHANGED <<open, error, port, callback, writeQueue, writeBuffer, ioStopped,
                   backgroundThread, rdPending, wrPending, bg, last, wr, Histories>>

\* A variant of CloseJoin that resets the error flag once close() has reported
\* it.
CloseJoin_ClearsError ==
    /\ Alive /\ ctl \in {"c_join", "o_c_join"}
    /\ backgroundThread \in {"finished", "none"}
    /\ backgroundThread' = "none"
    /\ ioStopped' = FALSE
    /\ error' = setErrorStatus(FALSE)
    /\ IF error
       THEN /\ ctl' = "idle"
            /\ last' = IF ctl = "c_join" THEN "close_fail" ELSE "open_fail_close"
       ELSE /\ ctl' = IF ctl = "c_join" THEN "idle" ELSE "o_setup"
            /\ last' = IF ctl = "c_join" THEN "close_ok" ELSE last
    /\ UNCHANGED WorkerOnly
    /\ UNCHANGED <<open, port, callback, writeQueue, writeBuffer, io,
                   rdPending, wrPending, bg, wr, Histories>>

\* A variant of CloseJoin that does not wait for the background thread
\* (line 129 missing): the thread is left running.
CloseJoin_NoWait ==
    /\ Alive /\ ctl \in {"c_join", "o_c_join"}
    /\ backgroundThread' = backgroundThread
    /\ ioStopped' = FALSE
    /\ IF error
       THEN /\ ctl' = "idle"
            /\ last' = IF ctl = "c_join" THEN "close_fail" ELSE "open_fail_close"
       ELSE /\ ctl' = IF ctl = "c_join" THEN "idle" ELSE "o_setup"
            /\ last' = IF ctl = "c_join" THEN "close_ok" ELSE last
    /\ UNCHANGED WorkerOnly
    /\ UNCHANGED <<open, error, port, callback, writeQueue, writeBuffer, io,
                   rdPending, wrPending, bg, wr, Histories>>

\* close(), lines 129-135: join the thread, reset the io_service, throw if
\* the error flag is set.  Inside open() the exception leaves open() too.
CloseJoin ==
    /\ Alive /\ ctl \in {"c_join", "o_c_join"}
    /\ backgroundThread \in {"finished", "none"}
    /\ backgroundThread' = "none"
    /\ ioStopped' = FALSE
    /\ IF error
       THEN /\ ctl' = "idle"
            /\ last' = IF ctl = "c_join" THEN "close_fail" ELSE "open_fail_close"
       ELSE /\ ctl' = IF ctl = "c_join" THEN "idle" ELSE "o_setup"
            /\ last' = IF ctl = "c_join" THEN "close_ok" ELSE last
    /\ UNCHANGED WorkerOnly
    /\ UNCHANGED <<open, error, port, callback, writeQueue, writeBuffer, io,
                   rdPending, wrPending, bg, wr, Histories>>

\* ---- the controlling thread: the destructor ------------------------------

\* ~AsyncSerial(), lines 166-168, and close() up to open=false (lines 125-127).
\* With the open flag false the destructor does nothing.  No other thread is
\* inside a call on the object being destroyed.
DestroyCall ==
    /\ Alive /\ ctl = "idle" /\ \A w \in Writers : wr[w] = "idle"
    /\ IF open THEN open' = FALSE /\ ctl' = "d_post" /\ last' = "none"
               ELSE open' = open /\ ctl' = "destroyed" /\ last' = "destroy_skip"
    /\ UNCHANGED WorkerOnly
    /\ UNCHANGED <<error, port, callback, writeQueue, writeBuffer, io, ioStopped,
                   backgroundThread, rdPending, wrPending, bg, wr, Histories>>

\* ~AsyncSerial() inside close(), line 128: post doClose.
DestroyPost ==
    /\ Alive /\ ctl = "d_post"
    /\ io' = Append(io, "doClose")
    /\ ctl' = "d_join"
    /\ UNCHANGED WorkerOnly
    /\ UNCHANGED <<open, error, port, callback, writeQueue, writeBuffer, ioStopped,
                   backgroundThread, rdPending, wrPending, bg, last, wr, Histories>>

\* ~AsyncSerial() inside close(), lines 129-135, and the catch(...) of lines
\* 172-175: join, reset, and the exception close() throws when the error
\* flag is set is swallowed; the destructor returns.
DestroyJoin ==
    /\ Alive /\ ctl = "d_join"
    /\ backgroundThread \in {"finished", "none"}
    /\ backgroundThread' = "none"
    /\ ioStopped' = FALSE
    /\ ctl' = "destroyed"
    /\ last' = IF error THEN "destroy_caught" ELSE "destroy_ok"
    /\ UNCHANGED WorkerOnly
    /\ UNCHANGED <<open, error, port, callback, writeQueue, writeBuffer, io,
                   rdPending, wrPending, bg, wr, Histories>>

\* ---- the controlling thread: the read callback ---------------------------

SetReadCallback ==
    /\ Alive /\ ctl = "idle" /\ ~callback
    /\ callback' = TRUE
    /\ UNCHANGED WorkerOnly
    /\ UNCHANGED <<open, error, port, writeQueue, writeBuffer, io, ioStopped,
                   backgroundThread, rdPending, wrPending, bg, Foreground, Histories>>

ClearReadCallback ==
    /\ Alive /\ ctl = "idle" /\ callback
    /\ callback' = FALSE
    /\ UNCHANGED WorkerOnly
    /\ UNCHANGED <<open, error, port, writeQueue, writeBuffer, io, ioStopped,
                   backgroundThread, rdPending, wrPending, bg, Foreground, Histories>>

\* ---- writer threads: write() / writeString() -----------------------------

\* write(), lines 140-143: append under writeQueueMutex.
WriteAppend(w) ==
    /\ Alive /\ wr[w] = "idle" /\ nWr < MaxWrites
    /\ writeQueue' = writeQueue \o Payload(nWr + 1)
    /\ appended' = appended \o Payload(nWr + 1)
    /\ nWr' = nWr + 1
    /\ wr' = [wr EXCEPT ![w] = "post"]
    /\ period' = IF open /\ ctl = "idle" THEN [period EXCEPT !.wrote = TRUE]
                                         ELSE period
    /\ UNCHANGED WorkerOnly
    /\ UNCHANGED <<open, error, port, callback, writeBuffer, io, ioStopped,
                   backgroundThread, rdPending, wrPending, bg, ctl, last, nOpen,
                   nFault, wire>>

\* write(), line 144: post doWrite.
WritePost(w) ==
    /\ Alive /\ wr[w] = "post"
    /\ io' = Append(io, "doWrite")
    /\ wr' = [wr EXCEPT ![w] = "idle"]
    /\ UNCHANGED WorkerOnly
    /\ UNCHANGED <<open, error, port, callback, writeQueue, writeBuffer, ioStopped,
                   backgroundThread, rdPending, wrPending, bg, ctl, last, Histories>>

\* ---- the background thread (reactor build) ------------------------------

\* doRead posted by open(): lines 179-186.
RunDoRead ==
    /\ Dispatch("doRead")
    /\ LET r == doRead(Tail(io)) IN io' = r.io /\ rdPending' = r.rdPending
    /\ UNCHANGED WorkerOnly
    /\ UNCHANGED <<open, error, port, callback, writeQueue, writeBuffer, ioStopped,
                   backgroundThread, wrPending, bg, Foreground, Histories>>

\* readEnd without error, line 210: test pimpl->callback.  An empty callback
\* goes straight to doRead() (line 212).
ReadEndOk ==
    /\ Dispatch("readEnd_ok")
    /\ IF callback
       THEN /\ bg' = "call" /\ io' = Tail(io) /\ rdPending' = rdPending
       ELSE /\ bg' = bg
            /\ LET r == doRead(Tail(io)) IN io' = r.io /\ rdPending' = r.rdPending
    /\ UNCHANGED WorkerOnly
    /\ UNCHANGED <<open, error, port, callback, writeQueue, writeBuffer, ioStopped,
                   backgroundThread, wrPending, Foreground, Histories>>

\* readEnd, lines 210-211: the call pimpl->callback(...) begins.  The callback
\* is read without a lock: when it was cleared after the test, the call either
\* still enters the callback that was registered, or finds the function empty
\* and throws bad_function_call out of the thread (the program terminates).
ReadEndInvoke ==
    /\ Alive /\ backgroundThread = "running" /\ bg = "call"
    /\ IF callback
       THEN bg' = "in_cb" /\ backgroundThread' = backgroundThread
       ELSE \/ bg' = "in_cb_stale" /\ backgroundThread' = backgroundThread
            \/ bg' = bg /\ backgroundThread' = "aborted"
    /\ UNCHANGED WorkerOnly
    /\ UNCHANGED <<open, error, port, callback, writeQueue, writeBuffer, io,
                   ioStopped, rdPending, wrPending, Foreground, Histories>>

\* readEnd, line 212: the callback has returned; doRead().
ReadEndRearm ==
    /\ Alive /\ backgroundThread = "running" /\ bg \in {"in_cb", "in_cb_stale"}
    /\ bg' = "idle"
    /\ LET r == doRead(io) IN io' = r.io /\ rdPending' = r.rdPending
    /\ UNCHANGED WorkerOnly
    /\ UNCHANGED <<open, error, port, callback, writeQueue, writeBuffer, ioStopped,
                   backgroundThread, wrPending, Foreground, Histories>>

\* readEnd with an error, lines 191-204: the test if(isOpen()).  With the
\* flag false the error is ignored and the handler returns.
ReadEndErr ==
    /\ Dispatch("readEnd_err")
    /\ io' = Tail(io)
    /\ IF open
       THEN /\ bg' = "rd_close"
            /\ period' = [period EXCEPT !.readErr = TRUE]
       ELSE /\ UNCHANGED <<bg, period>>
    /\ UNCHANGED WorkerOnly
    /\ UNCHANGED <<open, error, port, callback, writeQueue, writeBuffer,
                   ioStopped, backgroundThread, rdPending, wrPending, Foreground,
                   nWr, nOpen, nFault, appended, wire>>

\* readEnd with an error, line 206: doClose().  f: port.close reports a
\* failure (see RunDoClose).
ReadEndClose ==
    /\ Alive /\ backgroundThread = "running" /\ bg = "rd_close"
    /\ bg' = "rd_seterr"
    /\ \E f \in BOOLEAN :
         /\ f => (port = "open" /\ nFault < MaxFaults)
         /\ LET r == doClose(io, error, f) IN io' = r.io /\ error' = r.error
         /\ nFault' = IF f THEN nFault + 1 ELSE nFault
         /\ period' = IF f THEN [period EXCEPT !.devFault = TRUE] ELSE period
    /\ port' = "closed" /\ rdPending' = FALSE /\ wrPending' = <<>>
    /\ UNCHANGED WorkerOnly
    /\ UNCHANGED <<open, callback, writeQueue, writeBuffer, ioStopped,
                   backgroundThread, Foreground, nWr, nOpen, appended, wire>>

\* readEnd with an error, line 207: setErrorStatus(true); the handler returns.
ReadEndSetError ==
    /\ Alive /\ backgroundThread = "running" /\ bg = "rd_seterr"
    /\ bg' = "idle"
    /\ error' = setErrorStatus(TRUE)
    /\ UNCHANGED WorkerOnly
    /\ UNCHANGED <<open, port, callback, writeQueue, writeBuffer, io, ioStopped,
                   backgroundThread, rdPending, wrPending, Foreground, Histories>>

\* A variant of RunDoWrite that does not clear the queue after copying it
\* (line 226 missing).
RunDoWrite_KeepsQueue ==
    /\ Dispatch("doWrite")
    /\ IF writeBuffer.null
       THEN /\ writeBuffer' = [null |-> FALSE, bytes |-> writeQueue]
            /\ writeQueue' = writeQueue
            /\ LET r == asyncWrite(Tail(io), writeQueue) IN
                 io' = r.io /\ wrPending' = r.wrPending
       ELSE /\ io' = Tail(io)
            /\ UNCHANGED <<writeBuffer, writeQueue, wrPending>>
    /\ UNCHANGED WorkerOnly
    /\ UNCHANGED <<open, error, port, callback, ioStopped, backgroundThread,
                   rdPending, bg, Foreground, nWr, nOpen, nFault, appended, wire,
                   period>>

\* A variant of RunDoWrite that drains the queue even when a write is in
\* progress (the test of line 219 missing).
RunDoWrite_NoGuard ==
    /\ Dispatch("doWrite")
    /\ writeBuffer' = [null |-> FALSE, bytes |-> writeQueue]
    /\ writeQueue' = <<>>
    /\ LET r == asyncWrite(Tail(io), writeQueue) IN
         io' = r.io /\ wrPending' = r.wrPending
    /\ UNCHANGED WorkerOnly
    /\ UNCHANGED <<open, error, port, callback, ioStopped, backgroundThread,
                   rdPending, bg, Foreground, nWr, nOpen, nFault, appended, wire,
                   period>>

\* doWrite posted by write(): lines 216-231.
RunDoWrite ==
    /\ Dispatch("doWrite")
    /\ IF writeBuffer.null
       THEN /\ writeBuffer' = [null |-> FALSE, bytes |-> writeQueue]
            /\ writeQueue' = <<>>
            /\ LET r == asyncWrite(Tail(io), writeQueue) IN
                 io' = r.io /\ wrPending' = r.wrPending
       ELSE /\ io' = Tail(io)
            /\ UNCHANGED <<writeBuffer, writeQueue, wrPending>>
    /\ UNCHANGED WorkerOnly
    /\ UNCHANGED <<open, error, port, callback, ioStopped, backgroundThread,
                   rdPending, bg, Foreground, nWr, nOpen, nFault, appended, wire,
                   period>>

\* writeEnd without error: lines 235-252.
WriteEndOk ==
    /\ Dispatch("writeEnd_ok")
    /\ IF writeQueue = <<>>
       THEN /\ writeBuffer' = NullBuffer
            /\ io' = Tail(io)
            /\ UNCHANGED <<writeQueue, wrPending>>
       ELSE /\ writeBuffer' = [null |-> FALSE, bytes |-> writeQueue]
            /\ writeQueue' = <<>>
            /\ LET r == asyncWrite(Tail(io), writeQueue) IN
                 io' = r.io /\ wrPending' = r.wrPending
    /\ UNCHANGED WorkerOnly
    /\ UNCHANGED <<open, error, port, callback, ioStopped, backgroundThread,
                   rdPending, bg, Foreground, nWr, nOpen, nFault, appended, wire,
                   period>>

\* writeEnd with an error, line 254: setErrorStatus(true).
WriteEndErr ==
    /\ Dispatch("writeEnd_err")
    /\ io' = Tail(io)
    /\ bg' = "wr_close"
    /\ error' = setErrorStatus(TRUE)
    /\ UNCHANGED WorkerOnly
    /\ UNCHANGED <<open, port, callback, writeQueue, writeBuffer, ioStopped,
                   backgroundThread, rdPending, wrPending, Foreground, Histories>>

\* writeEnd with an error, line 255: doClose(); the handler returns.  f:
\* port.close reports a failure (see RunDoClose).
WriteEndClose ==
    /\ Alive /\ backgroundThread = "running" /\ bg = "wr_close"
    /\ bg' = "idle"
    /\ \E f \in BOOLEAN :
         /\ f => (port = "open" /\ nFault < MaxFaults)
         /\ LET r == doClose(io, error, f) IN io' = r.io /\ error' = r.error
         /\ nFault' = IF f THEN nFault + 1 ELSE nFault
         /\ period' = IF f THEN [period EXCEPT !.devFault = TRUE] ELSE period
    /\ port' = "closed" /\ rdPending' = FALSE /\ wrPending' = <<>>
    /\ UNCHANGED WorkerOnly
    /\ UNCHANGED <<open, callback, writeQueue, writeBuffer, ioStopped,
                   backgroundThread, Foreground, nWr, nOpen, appended, wire>>

\* doClose posted by close(): lines 259-266.  f: port.close reports a
\* failure, which only an open port can do; the handle is released anyway.
RunDoClose ==
    /\ Dispatch("doClose")
    /\ \E f \in BOOLEAN :
         /\ f => (port = "open" /\ nFault < MaxFaults)
         /\ LET r == doClose(Tail(io), error, f) IN
              io' = r.io /\ error' = r.error
         /\ nFault' = IF f THEN nFault + 1 ELSE nFault
         /\ period' = IF f THEN [period EXCEPT !.devFault = TRUE] ELSE period
    /\ port' = "closed" /\ rdPending' = FALSE /\ wrPending' = <<>>
    /\ UNCHANGED WorkerOnly
    /\ UNCHANGED <<open, callback, writeQueue, writeBuffer, ioStopped,
                   backgroundThread, bg, Foreground, nWr, nOpen, appended, wire>>

\* io_service::run returns (line 106): the io_service is stopped or has no
\* handler queued and no operation outstanding.  The thread ends.
RunExit ==
    /\ Alive /\ backgroundThread = "running" /\ bg = "idle"
    /\ ioStopped \/ (io = <<>> /\ ~rdPending /\ wrPending = <<>>)
    /\ backgroundThread' = "finished"
    /\ ioStopped' = TRUE
    /\ UNCHANGED WorkerOnly
    /\ UNCHANGED <<open, error, port, callback, writeQueue, writeBuffer, io,
                   rdPending, wrPending, bg, Foreground, Histories>>

\* ---- the serial device ----------------------------------------------------

\* The outstanding async_read_some (line 181) receives data.
DevReadData ==
    /\ Alive /\ rdPending
    /\ rdPending' = FALSE
    /\ io' = Append(io, "readEnd_ok")
    /\ UNCHANGED WorkerOnly
    /\ UNCHANGED <<open, error, port, callback, writeQueue, writeBuffer, ioStopped,
                   backgroundThread, wrPending, bg, Foreground, Histories>>

\* The outstanding async_read_some (line 181) fails.
DevReadFault ==
    /\ Alive /\ rdPending /\ nFault < MaxFaults
    /\ rdPending' = FALSE
    /\ io' = Append(io, "readEnd_err")
    /\ nFault' = nFault + 1
    /\ period' = [period EXCEPT !.devFault = TRUE]
    /\ UNCHANGED WorkerOnly
    /\ UNCHANGED <<open, error, port, callback, writeQueue, writeBuffer, ioStopped,
                   backgroundThread, wrPending, bg, Foreground, nWr, nOpen,
                   appended, wire>>

\* The outstanding async_write (lines 227, 250) transmits its next byte.
DevWriteByte ==
    /\ Alive /\ wrPending # <<>> /\ Head(wrPending) # <<>>
    /\ wire' = Append(wire, Head(Head(wrPending)))
    /\ wrPending' = <<Tail(Head(wrPending))>> \o Tail(wrPending)
    /\ UNCHANGED WorkerOnly
    /\ UNCHANGED <<open, error, port, callback, writeQueue, writeBuffer, io,
                   ioStopped, backgroundThread, rdPending, bg, Foreground, nWr,
                   nOpen, nFault, appended, period>>

\* The outstanding async_write has transmitted its whole buffer.
DevWriteDone ==
    /\ Alive /\ wrPending # <<>> /\ Head(wrPending) = <<>>
    /\ wrPending' = Tail(wrPending)
    /\ io' = Append(io, "writeEnd_ok")
    /\ UNCHANGED WorkerOnly
    /\ UNCHANGED <<open, error, port, callback, writeQueue, writeBuffer, ioStopped,
                   backgroundThread, rdPending, bg, Foreground, Histories>>

\* The outstanding async_write fails before its buffer is fully transmitted.
DevWriteFault ==
    /\ Alive /\ wrPending # <<>> /\ Head(wrPending) # <<>> /\ nFault < MaxFaults
    /\ wrPending' = Tail(wrPending)
    /\ io' = Append(io, "writeEnd_err")
    /\ nFault' = nFault + 1
    /\ period' = [period EXCEPT !.devFault = TRUE]
    /\ UNCHANGED WorkerOnly
    /\ UNCHANGED <<open, error, port, callback, writeQueue, writeBuffer, ioStopped,
                   backgroundThread, rdPending, bg, Foreground, nWr, nOpen,
                   appended, wire>>

\* ---- the reactor build ----------------------------------------------------

Next ==
    \/ OpenCall \/ OpenSetup \/ OpenStart \/ OpenClear \/ OpenMark
    \/ CloseCall \/ ClosePost \/ CloseJoin
    \/ DestroyCall \/ DestroyPost \/ DestroyJoin
    \/ SetReadCallback \/ ClearReadCallback
    \/ \E w \in Writers : WriteAppend(w)
    \/ \E w \in Writers : WritePost(w)
    \/ RunDoRead \/ ReadEndOk \/ ReadEndInvoke \/ ReadEndRearm \/ ReadEndErr
    \/ ReadEndClose \/ ReadEndSetError
    \/ RunDoWrite \/ WriteEndOk \/ WriteEndErr \/ WriteEndClose
    \/ RunDoClose \/ RunExit
    \/ DevReadData \/ DevReadFault \/ DevWriteByte \/ DevWriteDone \/ DevWriteFault

Spec == Init /\ [][Next]_vars

\* ---- the blocking-worker build (lines 284-635) ---------------------------
\* port models pimpl->fd: "open" a valid descriptor, "closed" a descriptor
\* that was closed, "invalid" the -1 that ::open returns on failure, and
\* "uninit" the indeterminate value fd has before the first open(): the
\* constructor (line 295) does not initialise it.
InitBW ==
    /\ open = FALSE /\ error = FALSE /\ port = "uninit" /\ callback = FALSE
    /\ writeQueue = <<>> /\ writeBuffer = NullBuffer
    /\ io = <<>> /\ ioStopped = FALSE /\ backgroundThread = "none"
    /\ rdPending = FALSE /\ wrPending = <<>>
    /\ bg = "idle" /\ received = 0 /\ ctl = "idle" /\ last = "none"
    /\ wr = [w \in Writers |-> "idle"] /\ nWr = 0
    /\ nOpen = 0 /\ nFault = 0
    /\ appended = <<>> /\ wire = <<>>
    /\ period = FreshPeriod

\* open(), line 331: if(isOpen()) close();  (close() up to open=false)
BWOpenCall ==
    /\ Alive /\ ctl = "idle" /\ nOpen < MaxOpens
    /\ nOpen' = nOpen + 1
    /\ last' = "none"
    /\ IF open THEN open' = FALSE /\ ctl' = "o_c_fd"
               ELSE open' = open /\ ctl' = "o_setup"
    /\ UNCHANGED <<error, port, callback, backgroundThread, bg, received, nWr,
                   nFault, appended, wire, period, ReactorOnly>>

\* open(), lines 333-395: set the error flag; fd = ::open(...); the results
\* of ioctl, fcntl, tcgetattr and tcsetattr are printed and not acted upon.
BWOpenSetup ==
    /\ Alive /\ ctl = "o_setup"
    /\ error' = setErrorStatus(TRUE)
    /\ period' = FreshPeriod
    /\ \E dev \in {"ok", "nodev"} :
         port' = IF dev = "ok" THEN "open" ELSE "invalid"
    /\ ctl' = "o_clear"
    /\ UNCHANGED <<open, callback, backgroundThread, bg, received, last, nWr,
                   nOpen, nFault, appended, wire, ReactorOnly>>

\* open(), line 518: setErrorStatus(false).
BWOpenClear ==
    /\ Alive /\ ctl = "o_clear"
    /\ error' = setErrorStatus(FALSE)
    /\ ctl' = "o_mark"
    /\ UNCHANGED <<open, port, callback, backgroundThread, bg, received, last,
                   Histories, ReactorOnly>>

\* open(), line 519: pimpl->open=true.
BWOpenMark ==
    /\ Alive /\ ctl = "o_mark"
    /\ open' = TRUE
    /\ ctl' = "o_start"
    /\ UNCHANGED <<error, port, callback, backgroundThread, bg, received, last,
                   Histories, ReactorOnly>>

\* open(), lines 521-522: start the thread running doRead; open() returns.
BWOpenStart ==
    /\ Alive /\ ctl = "o_start"
    /\ backgroundThread' = "running"
    /\ bg' = "read"
    /\ ctl' = "idle" /\ last' = "open_ok"
    /\ UNCHANGED <<open, error, port, callback, received, Histories, ReactorOnly>>

\* close(), lines 538-540: return if not open, else open=false.
BWCloseCall ==
    /\ Alive /\ ctl = "idle"
    /\ IF open THEN open' = FALSE /\ ctl' = "c_fd" /\ last' = "none"
               ELSE open' = open /\ ctl' = ctl /\ last' = "close_noop"
    /\ UNCHANGED <<error, port, callback, backgroundThread, bg, received,
                   Histories, ReactorOnly>>

\* close(), line 542: ::close(pimpl->fd).
BWCloseFd ==
    /\ Alive /\ ctl \in {"c_fd", "o_c_fd"}
    /\ port' = IF port = "open" THEN "closed" ELSE port
    /\ ctl' = IF ctl = "c_fd" THEN "c_join" ELSE "o_c_join"
    /\ UNCHANGED <<open, error, callback, backgroundThread, bg, received, last,
                   Histories, ReactorOnly>>

\* close(), lines 544-549: join the thread; throw if the error flag is set.
BWCloseJoin ==
    /\ Alive /\ ctl \in {"c_join", "o_c_join"}
    /\ backgroundThread \in {"finished", "none"}
    /\ backgroundThread' = "none"
    /\ IF error
       THEN /\ ctl' = "idle"
            /\ last' = IF ctl = "c_join" THEN "close_fail" ELSE "open_fail_close"
       ELSE /\ ctl' = IF ctl = "c_join" THEN "idle" ELSE "o_setup"
            /\ last' = IF ctl = "c_join" THEN "close_ok" ELSE last
    /\ UNCHANGED <<open, error, port, callback, bg, received, Histories,
                   ReactorOnly>>

\* ~AsyncSerial(), lines 568-570, and close() up to open=false (lines
\* 538-540).  With the open flag false the destructor does nothing.  No
\* other thread is inside a call on the object being destroyed.
BWDestroyCall ==
    /\ Alive /\ ctl = "idle" /\ \A w \in Writers : wr[w] = "idle"
    /\ IF open THEN open' = FALSE /\ ctl' = "d_fd" /\ last' = "none"
               ELSE open' = open /\ ctl' = "destroyed" /\ last' = "destroy_skip"
    /\ UNCHANGED <<error, port, callback, backgroundThread, bg, received,
                   Histories, ReactorOnly>>

\* ~AsyncSerial() inside close(), line 542: ::close(pimpl->fd).
BWDestroyFd ==
    /\ Alive /\ ctl = "d_fd"
    /\ port' = IF port = "open" THEN "closed" ELSE port
    /\ ctl' = "d_join"
    /\ UNCHANGED <<open, error, callback, backgroundThread, bg, received, last,
                   Histories, ReactorOnly>>

\* ~AsyncSerial() inside close(), lines 544-549, and the catch(...) of lines
\* 574-577: join; the exception close() throws when the error flag is set
\* is swallowed; the destructor returns.
BWDestroyJoin ==
    /\ Alive /\ ctl = "d_join"
    /\ backgroundThread \in {"finished", "none"}
    /\ backgroundThread' = "none"
    /\ ctl' = "destroyed"
    /\ last' = IF error THEN "destroy_caught" ELSE "destroy_ok"
    /\ UNCHANGED <<open, error, port, callback, bg, received, Histories,
                   ReactorOnly>>

\* write(), lines 552-555: ::write on the calling thread; k bytes are
\* accepted.  A closed or invalid descriptor accepts nothing; the
\* indeterminate descriptor of an engine that was never opened may be any
\* descriptor of the process, or none.  A result other than the full size
\* leads to setErrorStatus(true), a later step of the same call.
BWWrite(w) ==
    /\ Alive /\ wr[w] = "idle" /\ nWr < MaxWrites
    /\ nWr' = nWr + 1
    /\ appended' = appended \o Payload(nWr + 1)
    /\ \E k \in 0..Len(Payload(nWr + 1)) :
         /\ (port \in {"closed", "invalid"}) => k = 0
         /\ wire' = wire \o SubSeq(Payload(nWr + 1), 1, k)
         /\ wr' = IF k # Len(Payload(nWr + 1)) THEN [wr EXCEPT ![w] = "fail"]
                                                ELSE wr
    /\ UNCHANGED <<open, error, port, callback, backgroundThread, bg, received,
                   ctl, last, nOpen, nFault, period, writeQueue, writeBuffer,
                   io, ioStopped, rdPending, wrPending>>

\* write(), line 554: setErrorStatus(true) after a short or failed ::write.
BWWriteFail(w) ==
    /\ Alive /\ wr[w] = "fail"
    /\ error' = setErrorStatus(TRUE)
    /\ wr' = [wr EXCEPT ![w] = "idle"]
    /\ UNCHANGED <<open, port, callback, backgroundThread, bg, received, ctl,
                   last, Histories, writeQueue, writeBuffer, io, ioStopped,
                   rdPending, wrPending>>

\* doRead, line 586: the thread enters read(2).  On a descriptor that is not
\* open the call fails at once; on an open one it blocks.
BWRead ==
    /\ Alive /\ backgroundThread = "running" /\ bg = "read"
    /\ IF port = "open"
       THEN bg' = "blocked" /\ received' = received
       ELSE bg' = "got" /\ received' = -1
    /\ UNCHANGED <<open, error, port, callback, backgroundThread, ctl, last,
                   Histories, ReactorOnly>>

\* doRead, line 586: the blocked read(2) returns data, end of file or a
\* failure.  When close() has closed the descriptor meanwhile the read may
\* fail, or still return what the device sends.
BWReadReturn ==
    /\ Alive /\ backgroundThread = "running" /\ bg = "blocked"
    /\ \E r \in {-1, 0, 1} : received' = r
    /\ bg' = "got"
    /\ UNCHANGED <<open, error, port, callback, backgroundThread, ctl, last,
                   Histories, ReactorOnly>>

\* A variant of BWCheck without the isOpen() test of line 589: every failed
\* read sets the error flag and the loop reads again.
BWCheck_IgnoresOpenFlag ==
    /\ Alive /\ backgroundThread = "running" /\ bg = "got"
    /\ IF received < 0
       THEN /\ error' = setErrorStatus(TRUE) /\ bg' = "read"
            /\ backgroundThread' = backgroundThread
       ELSE /\ bg' = IF callback THEN "call" ELSE "read"
            /\ UNCHANGED <<error, backgroundThread>>
    /\ UNCHANGED <<open, port, callback, received, ctl, last, Histories,
                   ReactorOnly>>

\* doRead, lines 587-595: a failed read ends the loop when the open flag is
\* false and otherwise sets the error flag and reads again; any other result
\* is passed to the callback when one is registered.
BWCheck ==
    /\ Alive /\ backgroundThread = "running" /\ bg = "got"
    /\ IF received < 0
       THEN IF ~open
            THEN /\ backgroundThread' = "finished" /\ bg' = "idle"
                 /\ error' = error
            ELSE /\ error' = setErrorStatus(TRUE) /\ bg' = "read"
                 /\ backgroundThread' = backgroundThread
       ELSE /\ bg' = IF callback THEN "call" ELSE "read"
            /\ UNCHANGED <<error, backgroundThread>>
    /\ UNCHANGED <<open, port, callback, received, ctl, last, Histories,
                   ReactorOnly>>

\* doRead, line 595: the call pimpl->callback(...) begins (see ReadEndInvoke
\* for a callback cleared between the test and the call).
BWInvoke ==
    /\ Alive /\ backgroundThread = "running" /\ bg = "call"
    /\ IF callback
       THEN bg' = "in_cb" /\ backgroundThread' = backgroundThread
       ELSE \/ bg' = "in_cb_stale" /\ backgroundThread' = backgroundThread
            \/ bg' = bg /\ backgroundThread' = "aborted"
    /\ UNCHANGED <<open, error, port, callback, received, ctl, last, Histories,
                   ReactorOnly>>

\* doRead, lines 595-596: the callback has returned; next iteration.
BWReturn ==
    /\ Alive /\ backgroundThread = "running" /\ bg \in {"in_cb", "in_cb_stale"}
    /\ bg' = "read"
    /\ UNCHANGED <<open, error, port, callback, backgroundThread, received, ctl,
                   last, Histories, ReactorOnly>>

NextBW ==
    \/ BWOpenCall \/ BWOpenSetup \/ BWOpenClear \/ BWOpenMark \/ BWOpenStart
    \/ BWCloseCall \/ BWCloseFd \/ BWCloseJoin
    \/ BWDestroyCall \/ BWDestroyFd \/ BWDestroyJoin
    \/ SetReadCallback \/ ClearReadCallback
    \/ \E w \in Writers : BWWrite(w)
    \/ \E w \in Writers : BWWriteFail(w)
    \/ BWRead \/ BWReadReturn \/ BWCheck \/ BWInvoke \/ BWReturn

SpecBW == InitBW /\ [][NextBW]_vars

\* The blocking-worker build under scheduling assumptions: every thread that
\* can take a step eventually does and a callback returns.  Nothing is
\* assumed about read(2): a blocked read may stay blocked forever, also
\* after close() has closed its descriptor.
SpecBWFair ==
    /\ SpecBW
    /\ WF_vars(BWRead)
    /\ WF_vars(BWCheck) /\ WF_vars(BWInvoke) /\ WF_vars(BWReturn)
    /\ WF_vars(BWCloseFd) /\ WF_vars(BWCloseJoin)

\* ---- sanity of the model --------------------------------------------------
TypeOK ==
    /\ open \in BOOLEAN /\ error \in BOOLEAN /\ callback \in BOOLEAN
    /\ port \in {"closed", "open", "invalid", "uninit"}
    /\ backgroundThread \in {"none", "running", "finished", "aborted"}
    /\ rdPending \in BOOLEAN /\ ioStopped \in BOOLEAN
    /\ received \in {-1, 0, 1}
    /\ (port # "open") => (~rdPending /\ wrPending = <<>>)

\* ---- definitions used by the properties -----------------------------------

IsPrefix(s, t) == Len(s) <= Len(t) /\ SubSeq(t, 1, Len(s)) = s

\* Writes in flight: async_write issued and writeEnd not yet run to its end,
\* i.e. outstanding at the device, completed with the handler still queued,
\* or the handler stopped between its lines 254 and 255.
InFlight ==
    Len(wrPending)
    + Cardinality({i \in DOMAIN io : io[i] \in {"writeEnd_ok", "writeEnd_err"}})
    + (IF bg = "wr_close" THEN 1 ELSE 0)

\* A read is armed: outstanding, about to be issued, or being completed.
ReadArmed ==
    \/ rdPending
    \/ \E i \in DOMAIN io : io[i] \in {"doRead", "readEnd_ok"}
    \/ bg \in {"call", "in_cb", "in_cb_stale"}

\* No foreground call is in progress.
CallsDone == ctl = "idle" /\ \A w \in Writers : wr[w] = "idle"

\* The background thread waits in io_service::run with nothing to do but the
\* outstanding read; no write is in flight and no drain task is queued.
DrainIdle ==
    /\ backgroundThread = "running" /\ bg = "idle"
    /\ InFlight = 0
    /\ \A i \in DOMAIN io : io[i] # "doWrite"

OpenFailed == last \in {"open_fail", "open_fail_busy", "open_fail_close"}

\* ---- C1 -------------------------------------------------------------------
\* C1: the bytes the device has accepted are at every moment a prefix of the
\* bytes appended to the write queue, in the order the appends took the queue
\* lock: nothing is sent twice, out of order, or after a gap.
C1_WireIsPrefixOfAppended == IsPrefix(wire, appended)

\* Two write() calls were made and all four bytes reached the device.
C1_Witness == nWr = 2 /\ Len(wire) = 4 /\ wire = appended /\ nFault = 0

\* ---- C2 -------------------------------------------------------------------
\* C2: at most one device write is in flight: between two write-start events
\* there is a write-complete event.
C2_AtMostOneWriteInFlight == InFlight <= 1

\* A drain task ran while a write was in flight and left the queued bytes for
\* the completion handler.
C2_Witness ==
    /\ InFlight = 1 /\ writeQueue # <<>> /\ ~writeBuffer.null
    /\ backgroundThread = "running" /\ port = "open"
    /\ nWr = 2 /\ CallsDone /\ \A i \in DOMAIN io : io[i] # "doWrite"

\* ---- C8 -------------------------------------------------------------------
\* C8: when open() has failed, the error flag is true, the open flag is false
\* and no background thread is running.
C8_FailedOpenLeavesErrorSet ==
    (ctl = "idle" /\ OpenFailed)
        => (error /\ ~open /\ backgroundThread # "running")

\* open() failed because the close of the previously open engine failed.
C8_Witness == ctl = "idle" /\ last = "open_fail_close"

\* ---- C3 -------------------------------------------------------------------
\* C3: bytes passed to write() while the engine is open are handed to the
\* device.  Stated on the states where nothing more will be sent unless a new
\* call is made: the engine is open, its handle is open, no device fault has
\* occurred since open() began, no call is in progress, and the background
\* thread has no write in flight and no drain task queued.  Bytes were written
\* during this open period, so none may be left in the queue.
C3_NoBytesLeftBehind ==
    (/\ open /\ port = "open" /\ CallsDone /\ DrainIdle
     /\ period.wrote /\ ~period.devFault)
        => writeQueue = <<>>

\* ---- C4 -------------------------------------------------------------------
\* C4: after a read has completed with a device error while the engine was
\* open, the engine settles with isOpen() false and errorStatus() true.
\* Stated on the states where the background thread has ended and the caller
\* has made no further call.
C4_ReadFailureClosesEngine ==
    (/\ period.readErr /\ period.devFault
     /\ backgroundThread = "finished" /\ ctl = "idle")
        => (~open /\ error)

\* ---- C5 -------------------------------------------------------------------
\* C5: open() on a valid device, after close(), does not fail, and once it has
\* returned the engine reports open and no error, the handle is open, the
\* background thread runs and a read is armed, for as long as the device does
\* not fail and the caller makes no further open() or close().
C5_ReopenSucceeds ==
    /\ (ctl = "idle") => last # "open_fail_busy"
    /\ (Alive /\ ctl = "idle" /\ last = "open_ok" /\ ~period.devFault)
          => (/\ open /\ ~error /\ port = "open"
              /\ backgroundThread = "running" /\ ReadArmed)

\* ---- C6 -------------------------------------------------------------------
\* C6: errors of operations cancelled by close() are not recorded: as long as
\* the device never failed, close() does not report failure.
C6_CancelledIoIsSuppressed ==
    (ctl = "idle" /\ last = "close_fail") => nFault > 0

\* ---- C7 -------------------------------------------------------------------
\* C7: when close() on an open engine has returned or reported failure, the
\* open flag is false, the background thread is joined and the handle is
\* released; it reported failure exactly when the error flag is set.
C7_CloseReleasesHandle ==
    (ctl = "idle" /\ last \in {"close_ok", "close_fail"})
        => (/\ ~open /\ backgroundThread = "none" /\ port # "open"
            /\ (last = "close_fail") = error)

\* ---- C9 -------------------------------------------------------------------
\* C9 (blocking worker): open() on a device that cannot be opened fails: the
\* error flag is true, the open flag is false and no read loop is running.
C9_OpenFailsOnBadDevice ==
    (ctl = "idle" /\ port = "invalid")
        => (error /\ ~open /\ backgroundThread # "running" /\ last # "open_ok")


\* ---- C10 ------------------------------------------------------------------
\* C10: no invocation of the callback begins after clearReadCallback() has
\* returned.
C10_NoCallAfterClear == bg # "in_cb_stale"

\* C11: the error flag is sticky.  A step that takes it from true to false is
\* line 108 of an open() that has acquired the handle and started the thread,
\* and so returns successfully; no read or write completion, write(), callback
\* change or close() resets it.
C11_ErrorFlagSticky ==
    [][(error /\ ~error') => (ctl = "o_clear" /\ ctl' = "o_mark")]_vars

\* The flag was set by a background failure and is still set after the
\* close() that reported it.
C11_Witness == ctl = "idle" /\ last = "close_fail" /\ error /\ nFault > 0

\* C12: whenever no open() or close() call is in progress, the open flag is
\* true exactly when the device handle is open and the background thread is
\* running, also after a read or write error made the thread close the port.
C12_OpenFlagMatchesHandleAndThread ==
    (Alive /\ ctl = "idle")
        => (open <=> (port = "open" /\ backgroundThread = "running"))

\* C13: the in-flight write buffer is non-null exactly when a write is
\* outstanding (issued, and its completion handler has not yet run to the
\* end); so it is null again after a write failed or was cancelled by close().
C13_BufferNonNullIffWriteOutstanding ==
    (~writeBuffer.null) <=> (InFlight > 0)

\* C15: close() on an engine whose open flag is false is a no-op.  A step
\* that is a call of close() in such a state returns at once without failure
\* (the caller is idle again, no join is entered) and leaves the open flag,
\* the error flag, the handle, the write queue, the in-flight buffer, the
\* callback, the posted tasks and the background thread unchanged.
C15_CloseOnClosedIsNoOp ==
    [][(/\ ctl = "idle" /\ ~open
        /\ \/ ctl' = "c_post"
           \/ (last # "close_noop" /\ last' = "close_noop"))
       => (/\ ctl' = "idle" /\ last' = "close_noop"
           /\ UNCHANGED <<open, error, port, callback, writeQueue, writeBuffer,
                          io, ioStopped, backgroundThread, rdPending,
                          wrPending, bg>>)]_vars

\* close() was called on a closed engine whose error flag is set (a failed
\* open() set it) and returned without failure.
C15_Witness == ctl = "idle" /\ last = "close_noop" /\ error /\ ~open

\* C16: read callback invocations are strictly sequential.  The callback is
\* invoked only by the background thread, which runs one handler at a time,
\* and whenever open() starts a background thread (lines 106-107) no earlier
\* thread exists any more and no callback invocation is still running; this
\* holds for every open(), also after close()/open() cycles.
C16_OneThreadSequentialCallbacks ==
    [][(ctl = "o_start" /\ ctl' = "o_clear")
       => (backgroundThread = "none" /\ bg = "idle")]_vars

\* A callback invocation is running on the thread of the second open period.
C16_Witness ==
    /\ nOpen = 2 /\ backgroundThread = "running" /\ bg = "in_cb"
    /\ ctl = "idle" /\ last = "open_ok"

\* C17: blocking worker.  The read loop ends only by a failed read that finds
\* the open flag false; a failed read that finds the flag true sets the error
\* flag and the loop reads again.  Hence, in every run in which a read that
\* is blocked on a descriptor closed by close() returns (the hypothesis:
\* closing the descriptor makes the current read fail; later reads fail by
\* themselves), every close() that found the engine open gets past its join
\* and returns or reports failure (unless the process has been terminated,
\* after which no call returns).
C17_ReadLoopEndsOnlyWhenClosed ==
    /\ [][(backgroundThread = "running" /\ backgroundThread' = "finished")
          => (bg = "got" /\ received < 0 /\ ~open)]_vars
    /\ [][(bg = "got" /\ bg' # "got" /\ received < 0 /\ open)
          => (error' /\ backgroundThread' = "running" /\ bg' = "read")]_vars
    /\ ((bg = "blocked" /\ port # "open") ~> (bg # "blocked"))
          => ((ctl \in {"c_fd", "c_join", "o_c_fd", "o_c_join"})
                ~> (ctl \notin {"c_fd", "c_join", "o_c_fd", "o_c_join"}
                    \/ ~Alive))

\* A read failed while the engine was open, which set the error flag, and the
\* close() that followed joined the thread and reported the failure.
C17_Witness ==
    /\ ctl = "idle" /\ last = "close_fail" /\ backgroundThread = "none"
    /\ received = -1 /\ port = "closed" /\ nWr = 0

\* C18: blocking worker.  The read callback is invoked only for a read that
\* returned a strictly positive length: while an invocation is running, the
\* result of the read that caused it is greater than zero.
C18_CallbackOnlyForPositiveLength ==
    (bg \in {"in_cb", "in_cb_stale"}) => received > 0

\* C19: reactor.  Whenever open() has returned successfully and the engine
\* still reports isOpen() true and errorStatus() false, a read is armed: it
\* is outstanding, or its completion (successful or failed) is queued or
\* being processed, or the initial doRead is still queued.
C19_ReadArmedWhileOpen ==
    (Alive /\ ctl = "idle" /\ last = "open_ok" /\ open /\ ~error)
        => (\/ ReadArmed \/ bg \in {"rd_close", "rd_seterr"}
            \/ \E i \in DOMAIN io : io[i] = "readEnd_err")

\* C20: reactor.  No task posted in an earlier open period or while the
\* engine was closed runs in a later open period.  In particular, at the
\* step of open() that posts the initial read and starts the background
\* thread, no doClose posted by an earlier close() is pending, so that the
\* new thread cannot close the handle open() has just acquired.
C20_NoStaleCloseAtThreadStart ==
    [][(ctl = "o_start" /\ ctl' = "o_clear")
       => \A i \in DOMAIN io' : io'[i] # "doClose"]_vars

\* C21: reactor.  When open() has failed, the device handle is not held: a
\* failure that occurs after the handle was acquired (a rejected line
\* parameter) releases it before it is reported, so that the handle is not
\* left open with isOpen() false.
C21_FailedOpenReleasesHandle ==
    (ctl = "idle" /\ last = "open_fail" /\ ~open) => port # "open"

====
